---- MODULE Spec2Model ----
(***************************************************************************)
(* SimpleMessageQueue (src/ruby/message_queue/message_queue.rb): a topic   *)
(* based publish/subscribe bus.  @subscribers is a Hash whose default      *)
(* block stores an empty Array under every key that is read; subscribe     *)
(* appends the block to the Array of every type; publish walks the Array   *)
(* of the type with Array#each and calls every element inside              *)
(* begin/rescue => e, which rescues StandardError and its subclasses only. *)
(***************************************************************************)
EXTENDS Naturals, Sequences, FiniteSets, TLC

VARIABLES
    subscribers,  \* @subscribers: the stored keys and the Array of blocks of each
    stack,        \* the publish call in progress: its type, data, the index of
                  \* the each, whether a block is running; with the Hash (pre)
                  \* and the Array (snap) at the lookup and the calls made (log)
    regs,         \* history: the subscribe calls made, with what each signalled
                  \* and the number of publish calls started before it
    done,         \* history: the publish calls that are over, with their result
    seen,         \* what every block of a caller was called with, in order
    acc,          \* map/reduce: the sum and count of the reducer of every key
    mr,           \* map/reduce: the driver's position, input size and progress
    cur,          \* the SimpleMessageQueue instance the calls are made on
    other,        \* @subscribers of the instance the calls are not made on
    pending,      \* the subscribe call a second thread is executing, if any
    workers       \* map/reduce with concurrent map workers: what each is doing

\* The state of the second instance, the second thread and the workers.
ext == <<cur, other, pending, workers>>

vars == <<subscribers, stack, regs, done, seen, acc, mr, cur, other, pending, workers>>

----------------------------------------------------------------------------
(* Bounds of the model. *)

MaxSubscribes == 2

MaxPublishes == 2

\* The map/reduce driver runs on the inputs 1..n for every n up to MaxInput
\* and for n = InputSize.
MaxInput == 6

\* With two instances the callers make at most MaxBusPublishes publish calls.
MaxBusPublishes == 1

\* With two threads each thread makes at most MaxThreadCalls calls.
MaxThreadCalls == 1

\* A caller that keeps what publish returns makes at most MaxCallerCalls
\* calls of each kind.
MaxCallerCalls == 1

\* With handlers that publish, at most MaxNestedCalls publish calls are made.
MaxNestedCalls == 2

\* With handlers that write to their argument, at most MaxMutatePublishes
\* publish calls are made.
MaxMutatePublishes == 1

\* The driver that publishes in any order runs on every input of at most
\* MaxOrderLen values out of 1..MaxOrderValue.
MaxOrderLen == 3
MaxOrderValue == 4

\* With concurrent map workers the driver runs on 1..n for every n up to
\* MaxWorkInput.
MaxWorkInput == 3

----------------------------------------------------------------------------
(* Values. *)

\* Ruby's nil as a block: the block of a subscribe call without a block.
Nil == "nil"

\* Ruby's nil as data.  Data is <<>> for nil and <<v>> for the value v.
NilData == <<>>

\* Message types: Hash keys are Strings compared by String#eql?, so "a" and
\* "A" are two keys and "" is a key like any other.
Topics == {"a", "A", ""}

\* The blocks that callers pass to subscribe.
Blocks == {"h1", "h2"}

\* The data that callers pass to publish.
Payloads == {<<"p1">>, <<"p2">>}

\* The arguments of publish after the type: none, or the data.
PublishArgs == {<<>>} \cup {<<data>> : data \in Payloads}

\* How a called block ends: it returns, it raises a StandardError (or a
\* subclass), or it raises an Exception outside the StandardError family
\* (NotImplementedError, SystemExit, SystemStackError, Interrupt, ...).
Outcomes == {"ok", "StandardError", "Exception"}

\* The argument list of a subscribe call: every argument is a String
\* (arr = FALSE, one item) or an Array of Strings (arr = TRUE).
Str(t) == [arr |-> FALSE, items |-> <<t>>]

Arr(ts) == [arr |-> TRUE, items |-> ts]

TypeLists == {<<>>, <<"a">>, <<"A">>, <<"">>, <<"a", "A">>, <<"a", "a">>}

ArgForms(ts) == {<<Arr(ts)>>, [k \in 1..Len(ts) |-> Str(ts[k])]}

SubscribeArgs == UNION {ArgForms(ts) : ts \in TypeLists}

\* Map/reduce: the number of values of the run the notes report, the
\* reduction keys and the reducer block of every key.
InputSize == 1000

Keys == {"even", "odd"}

Reducers == {"reduceEven", "reduceOdd"}

reducerFor(key) == IF key = "even" THEN "reduceEven" ELSE "reduceOdd"

keyOf(block) == IF block = "reduceEven" THEN "even" ELSE "odd"

\* The partition function of the driver: the parity of the value.
partition(value) == IF value % 2 = 0 THEN "even" ELSE "odd"

\* The body of a reducer: it adds the value to the sum of its key and
\* counts it.
reduce(a, block, data) ==
    [a EXCEPT ![keyOf(block)] = [sum |-> @.sum + data[1], count |-> @.count + 1]]

\* How the body of a block can end when it is called with arg.  A block of
\* a caller does anything; a reducer returns, except that adding nil to
\* its sum raises TypeError, a StandardError.
BlockOutcomes(block, arg) ==
    IF block \in Reducers
    THEN (IF arg = NilData THEN {"StandardError"} ELSE {"ok"})
    ELSE Outcomes

----------------------------------------------------------------------------
(* The code. *)

\* types.flatten (line 31): the items of the arguments, in order.
RECURSIVE flatten(_)
flatten(types) ==
    IF types = <<>> THEN <<>>
    ELSE Head(types).items \o flatten(Tail(types))

\* A Hash that folds the case of its keys.
HashKeyDowncase(type) == IF type = "A" THEN "a" ELSE type

\* Hash.new([]): no key is ever stored, every read returns the one default
\* Array and every << appends to it, as if all types were one key.
HashKeySharedDefault(type) == ""

\* The key under which a type is looked up in the Hash: the String itself.
HashKey(type) == type

\* Hash.new { |hash, key| hash[key] = [] } (line 25): the Hash after a read
\* of hash[key]; a missing key is stored with an empty Array.
HashDefault(hash, key) ==
    IF HashKey(key) \in DOMAIN hash THEN hash
    ELSE hash @@ (HashKey(key) :> <<>>)

\* @subscribers[type] << block (line 33).
Push(hash, type, block) ==
    LET h == HashDefault(hash, type)
    IN  [h EXCEPT ![HashKey(type)] = Append(@, block)]

\* @subscribers[types.first] << block: the first type only.
subscribeFirstOnly(hash, types, block) ==
    IF types = <<>> THEN hash ELSE Push(hash, types[1], block)

\* types.each do |type| @subscribers[type] << block end (lines 32-34).
RECURSIVE subscribe(_, _, _)
subscribe(hash, types, block) ==
    IF types = <<>> THEN hash
    ELSE subscribe(Push(hash, Head(types), block), Tail(types), block)

\* What subscribe signals to its caller: the method has no raise, it
\* returns the value of types.each for every argument list and block.
SubscribeResult(types, block) == "returned"

\* The value of a subscribe call: that of its last expression, types.each
\* (lines 32-34), which is its receiver, the flattened types.
SubscribeValue(types, block) == types

\* The value of a publish call that returns: that of its last expression,
\* @subscribers[type].each (lines 42-49), which is its receiver, the Array
\* stored in the table under the type: the key of that Array, as a
\* reference to it (an empty sequence would be no reference, nil).
PublishValue(type) == <<HashKey(type)>>

\* publish(type, data = nil) (line 39): the data of the call.
DefaultData(args) == IF args = <<>> THEN NilData ELSE args[1]

\* subscriber.call, without the data.
CallArgNone(frame) == NilData

\* subscriber.call(data) (line 44): the argument a subscriber is called with.
CallArg(frame) == frame.data

\* An each that steps over the element after the one it has handled.
NextIndexSkip(i) == i + 2

\* Array#each (line 42): the index after an element has been handled.
NextIndex(i) == i + 1

\* rescue => e (line 45): the exceptions the rescue clause catches.
Rescued(out) == out \in {"StandardError", "NoMethodError"}

----------------------------------------------------------------------------
(* State. *)

\* The publish call in progress (at most one in this specification).
top == stack[Len(stack)]

\* The Array that the each of the call in progress walks: the Array object
\* stored in the Hash, which a subscribe during the walk appends to.
Walked == subscribers[HashKey(top.type)]

\* The code that runs is the caller's top level or the body of a block.
InCallerCode == IF stack = <<>> THEN TRUE ELSE top.inHandler

\* One instance is in use, by one thread.
ExtInit ==
    /\ cur = 1
    /\ other = <<>>
    /\ pending = <<>>
    /\ workers = <<>>

Init ==
    /\ subscribers = <<>>
    /\ stack = <<>>
    /\ regs = <<>>
    /\ done = <<>>
    /\ seen = [b \in Blocks |-> <<>>]
    /\ acc = [key \in Keys |-> [sum |-> 0, count |-> 0]]
    /\ mr = [pc |-> "off", n |-> 0, k |-> 0]
    /\ ExtInit

\* subscribe(*types, &block) (lines 30-35), called from the top level or from
\* the body of a block that publish is calling.
Subscribe(args, block) ==
    /\ InCallerCode
    /\ LET types == flatten(args)
       IN  /\ subscribers' = subscribe(subscribers, types, block)
           /\ regs' = Append(regs, [types |-> types, block |-> block,
                                    result |-> SubscribeResult(types, block),
                                    before |-> Len(done) + Len(stack),
                                    nested |-> stack # <<>>,
                                    bus |-> cur])
    /\ UNCHANGED <<stack, done, seen, acc, mr, ext>>

\* publish(type, data = nil) up to the start of the each (lines 39-42): both
\* reads of @subscribers[type] store a missing key; the Array is never nil,
\* so line 40 never returns.
PublishStart(type, args) ==
    /\ stack = <<>>
    /\ subscribers' = HashDefault(subscribers, type)
    /\ stack' = <<[type |-> type, data |-> DefaultData(args), i |-> 0,
                   snap |-> subscribers'[HashKey(type)], log |-> <<>>,
                   inHandler |-> FALSE, pre |-> subscribers]>>
    /\ UNCHANGED <<regs, done, seen, acc, ext>>

\* One iteration of the each starts (lines 42-44): subscriber.call(data).
\* Calling nil raises NoMethodError, a StandardError, which is rescued.
EachCall ==
    /\ stack # <<>>
    /\ ~top.inHandler
    /\ top.i < Len(Walked)
    /\ LET subscriber == Walked[top.i + 1]
           entry == [pos |-> top.i + 1, block |-> subscriber,
                     arg |-> CallArg(top), out |-> "running"]
       IN  IF subscriber = Nil
           THEN /\ stack' = <<[top EXCEPT
                                 !.log = Append(@, [entry EXCEPT !.out = "NoMethodError"]),
                                 !.i = NextIndex(@)]>>
                /\ seen' = seen
           ELSE /\ stack' = <<[top EXCEPT !.log = Append(@, entry),
                                          !.inHandler = TRUE]>>
                /\ seen' = IF subscriber \in Blocks
                           THEN [seen EXCEPT ![subscriber] = Append(@, CallArg(top))]
                           ELSE seen
    /\ UNCHANGED <<subscribers, regs, done, acc, mr, ext>>

\* The called block ends (lines 44-48).  A rescued exception is discarded
\* and the each goes on; any other exception leaves publish.
HandlerEnd(out) ==
    /\ stack # <<>>
    /\ top.inHandler
    /\ out \in BlockOutcomes(top.log[Len(top.log)].block, top.log[Len(top.log)].arg)
    /\ LET log == [top.log EXCEPT ![Len(top.log)].out = out]
           called == top.log[Len(top.log)]
       IN  /\ acc' = IF out = "ok" /\ called.block \in Reducers
                      THEN reduce(acc, called.block, called.arg)
                      ELSE acc
           /\ IF out = "ok" \/ Rescued(out)
              THEN /\ stack' = <<[top EXCEPT !.log = log, !.i = NextIndex(@),
                                             !.inHandler = FALSE]>>
                   /\ done' = done
              ELSE /\ stack' = <<>>
                   /\ done' = Append(done, [type |-> top.type, data |-> top.data,
                                            snap |-> top.snap, log |-> log,
                                            result |-> "raised", bus |-> cur])
    /\ UNCHANGED <<subscribers, regs, seen, mr, ext>>

\* The each is over and publish returns (lines 49-50).
PublishReturn ==
    /\ stack # <<>>
    /\ ~top.inHandler
    /\ top.i >= Len(Walked)
    /\ stack' = <<>>
    /\ done' = Append(done, [type |-> top.type, data |-> top.data,
                             snap |-> top.snap, log |-> top.log,
                             result |-> "returned", bus |-> cur])
    /\ UNCHANGED <<subscribers, regs, seen, acc, mr, ext>>

Next ==
    \/ \E args \in SubscribeArgs, block \in Blocks \cup {Nil} :
           Len(regs) < MaxSubscribes /\ Subscribe(args, block)
    \/ \E type \in Topics, args \in PublishArgs :
           Len(done) < MaxPublishes /\ PublishStart(type, args) /\ mr' = mr
    \/ EachCall
    \/ \E out \in Outcomes : HandlerEnd(out)
    \/ PublishReturn

Spec == Init /\ [][Next]_vars

----------------------------------------------------------------------------
(* The map/reduce driver on the bus: it subscribes the reducer of every    *)
(* key, publishes every value of 1..n on the topic of its partition and    *)
(* reads the accumulators when the loop is over.                           *)

InitMapReduce ==
    /\ subscribers = <<>>
    /\ stack = <<>>
    /\ regs = <<>>
    /\ done = <<>>
    /\ seen = [b \in Blocks |-> <<>>]
    /\ acc = [key \in Keys |-> [sum |-> 0, count |-> 0]]
    /\ \E n \in (0..MaxInput) \cup {InputSize} : mr = [pc |-> "subscribe", n |-> n, k |-> 0]
    /\ ExtInit

\* The reduce phase is set up: one subscribe per key that is not subscribed
\* yet, in either order.
DriverSubscribe(key) ==
    /\ mr.pc = "subscribe"
    /\ \A r \in 1..Len(regs) : regs[r].block # reducerFor(key)
    /\ Subscribe(<<Arr(<<key>>)>>, reducerFor(key))

\* Every key is subscribed: the map phase starts.
DriverStartMap ==
    /\ mr.pc = "subscribe"
    /\ \A key \in Keys : \E r \in 1..Len(regs) : regs[r].block = reducerFor(key)
    /\ mr' = [mr EXCEPT !.pc = "map"]
    /\ UNCHANGED <<subscribers, stack, regs, done, seen, acc, ext>>

\* The map phase: the next value is published on the topic of its partition.
DriverPublish ==
    /\ mr.pc = "map"
    /\ mr.k < mr.n
    /\ PublishStart(partition(mr.k + 1), <<<<mr.k + 1>>>>)
    /\ mr' = [mr EXCEPT !.k = @ + 1]

\* The publish loop is over: the accumulators are read.
DriverReadOut ==
    /\ mr.pc = "map"
    /\ mr.k = mr.n
    /\ stack = <<>>
    /\ mr' = [mr EXCEPT !.pc = "done"]
    /\ UNCHANGED <<subscribers, stack, regs, done, seen, acc, ext>>

NextMapReduce ==
    \/ \E key \in Keys : DriverSubscribe(key)
    \/ DriverStartMap
    \/ DriverPublish
    \/ DriverReadOut
    \/ EachCall
    \/ \E out \in Outcomes : HandlerEnd(out)
    \/ PublishReturn

SpecMapReduce == InitMapReduce /\ [][NextMapReduce]_vars

----------------------------------------------------------------------------
(* Two instances: SimpleMessageQueue.new is called twice and the caller,   *)
(* between two publish calls, goes from one instance to the other.  Each   *)
(* instance has its own @subscribers (line 25); subscribers is the table   *)
(* of the instance in use, other that of the instance that is not.         *)

\* @@subscribers: one table for the class, the same for every instance.
InstanceTableShared(mine, theirs) == mine

\* @subscribers (line 25): the table of the instance the caller goes to,
\* given that of the instance it leaves and that of the one it goes to.
InstanceTable(mine, theirs) == theirs

\* The caller goes on with the other instance.
SwitchBus ==
    /\ stack = <<>>
    /\ subscribers' = InstanceTable(subscribers, other)
    /\ other' = subscribers
    /\ cur' = 3 - cur
    /\ UNCHANGED <<stack, regs, done, seen, acc, mr, pending, workers>>

NextTwoBuses ==
    \/ SwitchBus
    \/ \E args \in SubscribeArgs, block \in Blocks \cup {Nil} :
           Len(regs) < MaxSubscribes /\ Subscribe(args, block)
    \/ \E type \in Topics, args \in PublishArgs :
           Len(done) < MaxBusPublishes /\ PublishStart(type, args) /\ mr' = mr
    \/ EachCall
    \/ \E out \in Outcomes : HandlerEnd(out)
    \/ PublishReturn

SpecTwoBuses == Init /\ [][NextTwoBuses]_vars

----------------------------------------------------------------------------
(* Two threads on one instance: one thread makes subscribe calls while the *)
(* other makes publish calls.  subscribe takes no lock (lines 30-35): the  *)
(* threads can be switched between two iterations of its types.each, so a  *)
(* publish of the other thread can start and run between the appends of    *)
(* one subscribe call.  pending is the subscribe call in progress.         *)

\* The subscribing thread calls subscribe: the types are flattened (line 31).
ThreadSubscribeStart(args, block) ==
    /\ pending = <<>>
    /\ pending' = <<[types |-> flatten(args), rest |-> flatten(args),
                     block |-> block, base |-> subscribers,
                     since |-> Len(done) + Len(stack)]>>
    /\ UNCHANGED <<subscribers, stack, regs, done, seen, acc, mr, cur, other, workers>>

\* One iteration of its types.each: @subscribers[type] << block (line 33).
ThreadSubscribeStep ==
    /\ pending # <<>>
    /\ pending[1].rest # <<>>
    /\ subscribers' = Push(subscribers, Head(pending[1].rest), pending[1].block)
    /\ pending' = <<[pending[1] EXCEPT !.rest = Tail(@)]>>
    /\ UNCHANGED <<stack, regs, done, seen, acc, mr, cur, other, workers>>

\* Its types.each is over: subscribe returns (lines 34-35).
ThreadSubscribeEnd ==
    /\ pending # <<>>
    /\ pending[1].rest = <<>>
    /\ regs' = Append(regs, [types |-> pending[1].types,
                             block |-> pending[1].block,
                             result |-> SubscribeResult(pending[1].types, pending[1].block),
                             before |-> pending[1].since,
                             nested |-> FALSE,
                             bus |-> cur])
    /\ pending' = <<>>
    /\ UNCHANGED <<subscribers, stack, done, seen, acc, mr, cur, other, workers>>

NextThreads ==
    \/ \E args \in SubscribeArgs, block \in Blocks :
           Len(regs) < MaxThreadCalls /\ ThreadSubscribeStart(args, block)
    \/ ThreadSubscribeStep
    \/ ThreadSubscribeEnd
    \/ \E type \in Topics, args \in PublishArgs :
           Len(done) < MaxThreadCalls /\ PublishStart(type, args) /\ mr' = mr
    \/ EachCall
    \/ \E out \in Outcomes : HandlerEnd(out)
    \/ PublishReturn

SpecThreads == Init /\ [][NextThreads]_vars

----------------------------------------------------------------------------
(* One publish call whose handlers subscribe, followed to its end however  *)
(* long it runs.  Array#each (line 42) reads the Array at its index and    *)
(* compares the index with the current length, nothing else: of the walked *)
(* Array the state keeps the entries from the index of the each on, the    *)
(* entries the each has left are dropped and the index stays 0.  A handler *)
(* may subscribe itself, once per call, under the topic being published.   *)
(* The caller subscribes before the publish; the behaviour ends with it.   *)

\* publish(type, data) is called (lines 39-42).
EachPublishStart(type, args) ==
    /\ stack = <<>>
    /\ done = <<>>
    /\ subscribers' = HashDefault(subscribers, type)
    /\ stack' = <<[type |-> type, data |-> DefaultData(args), i |-> 0,
                   inHandler |-> FALSE, subscribed |-> FALSE]>>
    /\ UNCHANGED <<regs, done, seen, acc, mr, ext>>

\* The walked Array without the entries the each has left.
Rest(array, i) == SubSeq(array, i + 1, Len(array))

\* The each goes on to the next entry.
EachAdvance ==
    /\ subscribers' = [subscribers EXCEPT
           ![HashKey(top.type)] = Rest(@, NextIndex(top.i))]
    /\ stack' = <<[top EXCEPT !.inHandler = FALSE, !.subscribed = FALSE]>>

\* subscriber.call(data) (line 44); nil.call raises NoMethodError, which is
\* rescued (line 45).
EachCallNext ==
    /\ stack # <<>>
    /\ ~top.inHandler
    /\ top.i < Len(Walked)
    /\ IF Walked[top.i + 1] = Nil
       THEN Rescued("NoMethodError") /\ EachAdvance
       ELSE /\ stack' = <<[top EXCEPT !.inHandler = TRUE]>>
            /\ UNCHANGED subscribers
    /\ UNCHANGED <<regs, done, seen, acc, mr, ext>>

\* The running handler calls subscribe(type, itself) for the topic that is
\* being published (lines 30-35).
HandlerSubscribesItself ==
    /\ stack # <<>>
    /\ top.inHandler
    /\ ~top.subscribed
    /\ subscribers' = subscribe(subscribers, flatten(<<Str(top.type)>>),
                                Walked[top.i + 1])
    /\ stack' = <<[top EXCEPT !.subscribed = TRUE]>>
    /\ UNCHANGED <<regs, done, seen, acc, mr, ext>>

\* The running handler ends: it returns or raises (lines 44-47).
HandlerEnds(out) ==
    /\ stack # <<>>
    /\ top.inHandler
    /\ IF out = "ok" \/ Rescued(out)
       THEN EachAdvance /\ UNCHANGED done
       ELSE /\ stack' = <<>>
            /\ done' = <<[type |-> top.type, data |-> top.data, snap |-> <<>>,
                          log |-> <<>>, result |-> "raised", bus |-> cur]>>
            /\ UNCHANGED subscribers
    /\ UNCHANGED <<regs, seen, acc, mr, ext>>

\* The each is over: publish returns (lines 48-50).
EachPublishReturn ==
    /\ stack # <<>>
    /\ ~top.inHandler
    /\ top.i >= Len(Walked)
    /\ stack' = <<>>
    /\ done' = <<[type |-> top.type, data |-> top.data, snap |-> <<>>,
                  log |-> <<>>, result |-> "returned", bus |-> cur]>>
    /\ UNCHANGED <<subscribers, regs, seen, acc, mr, ext>>

NextEach ==
    \/ \E args \in SubscribeArgs, block \in Blocks \cup {Nil} :
           /\ stack = <<>>
           /\ done = <<>>
           /\ Len(regs) < MaxSubscribes
           /\ Subscribe(args, block)
    \/ \E type \in Topics, args \in PublishArgs : EachPublishStart(type, args)
    \/ EachCallNext
    \/ HandlerSubscribesItself
    \/ \E out \in Outcomes : HandlerEnds(out)
    \/ EachPublishReturn

\* One thread runs the publish: the each goes on whenever it can, and every
\* handler that is called ends.
FairEach ==
    /\ WF_vars(EachCallNext)
    /\ WF_vars(\E out \in Outcomes : HandlerEnds(out))
    /\ WF_vars(EachPublishReturn)

SpecEach == Init /\ [][NextEach]_vars /\ FairEach

----------------------------------------------------------------------------
(* A caller that keeps the value publish returned and writes to it, as it  *)
(* may to any Array it holds: list << block or list.clear.  pending keeps  *)
(* the writes made.                                                        *)

CallerWrites == {"push", "clear"}

\* The Array after a write of the caller.
Written(array, write, block) ==
    IF write = "push" THEN Append(array, block) ELSE <<>>

\* The caller writes to the value that the k-th publish call returned.
CallerWritesReturned(k, write, block) ==
    /\ stack = <<>>
    /\ k \in 1..Len(done)
    /\ done[k].result = "returned"
    /\ PublishValue(done[k].type) # <<>>
    /\ subscribers' = [subscribers EXCEPT
           ![PublishValue(done[k].type)[1]] = Written(@, write, block)]
    /\ pending' = Append(pending, [call |-> k, write |-> write, block |-> block])
    /\ UNCHANGED <<stack, regs, done, seen, acc, mr, cur, other, workers>>

NextCaller ==
    \/ \E args \in SubscribeArgs, block \in Blocks \cup {Nil} :
           Len(regs) < MaxCallerCalls /\ Subscribe(args, block)
    \/ \E type \in Topics, args \in PublishArgs :
           Len(done) < MaxCallerCalls /\ PublishStart(type, args) /\ mr' = mr
    \/ EachCall
    \/ \E out \in Outcomes : HandlerEnd(out)
    \/ PublishReturn
    \/ \E k \in 1..MaxCallerCalls, write \in CallerWrites, block \in Blocks :
           Len(pending) < MaxCallerCalls /\ CallerWritesReturned(k, write, block)

SpecCaller == Init /\ [][NextCaller]_vars

----------------------------------------------------------------------------
(* Handlers that publish: publish is called from the top level or from the *)
(* body of a block that another publish call is calling.  The calls are    *)
(* method calls on one thread: stack holds a frame per call in progress    *)
(* and only the call on top runs; the calls below it wait in their         *)
(* subscriber.call (line 44).                                              *)

\* The calls in progress that wait for the one on top.
Below == SubSeq(stack, 1, Len(stack) - 1)

\* publish(type, data = nil) up to the start of the each (lines 39-42).
\* from is the number of calls the calling publish had made, parent its
\* type; kids counts the publish calls that the handlers of this call make.
NestedPublishStart(type, args) ==
    /\ InCallerCode
    /\ subscribers' = HashDefault(subscribers, type)
    /\ LET frame == [type |-> type, data |-> DefaultData(args), i |-> 0,
                     snap |-> subscribers'[HashKey(type)], log |-> <<>>,
                     inHandler |-> FALSE, pre |-> subscribers,
                     depth |-> Len(stack) + 1, kids |-> 0,
                     parent |-> IF stack = <<>> THEN <<>> ELSE <<top.type>>,
                     from |-> IF stack = <<>> THEN 0 ELSE Len(top.log)]
       IN  stack' = IF stack = <<>> THEN <<frame>>
                    ELSE Append(Below, [top EXCEPT !.kids = @ + 1]) \o <<frame>>
    /\ UNCHANGED <<regs, done, seen, acc, mr, ext>>

\* One iteration of the each of the call on top starts (lines 42-44).
NestedEachCall ==
    /\ stack # <<>>
    /\ ~top.inHandler
    /\ top.i < Len(Walked)
    /\ LET subscriber == Walked[top.i + 1]
           entry == [pos |-> top.i + 1, block |-> subscriber,
                     arg |-> CallArg(top), out |-> "running"]
       IN  IF subscriber = Nil
           THEN /\ stack' = Append(Below, [top EXCEPT
                                 !.log = Append(@, [entry EXCEPT !.out = "NoMethodError"]),
                                 !.i = NextIndex(@)])
                /\ seen' = seen
           ELSE /\ stack' = Append(Below, [top EXCEPT !.log = Append(@, entry),
                                                      !.inHandler = TRUE])
                /\ seen' = [seen EXCEPT ![subscriber] = Append(@, CallArg(top))]
    /\ UNCHANGED <<subscribers, regs, done, acc, mr, ext>>

\* What is kept of a call that has ended; under is the number of calls the
\* calling publish has made when this call ends.
Ended(frame, log, result) ==
    [type |-> frame.type, data |-> frame.data, snap |-> frame.snap,
     log |-> log, result |-> result, bus |-> cur,
     depth |-> frame.depth, kids |-> frame.kids, parent |-> frame.parent,
     from |-> frame.from,
     under |-> IF Below = <<>> THEN 0 ELSE Len(Below[Len(Below)].log)]

\* The block called by the call on top ends (lines 44-48).  An exception
\* that is not rescued leaves this publish and arrives in the block that
\* called it, if any.
NestedHandlerEnd(out) ==
    /\ stack # <<>>
    /\ top.inHandler
    /\ LET log == [top.log EXCEPT ![Len(top.log)].out = out]
       IN  IF out = "ok" \/ Rescued(out)
           THEN /\ stack' = Append(Below, [top EXCEPT !.log = log,
                                                      !.i = NextIndex(@),
                                                      !.inHandler = FALSE])
                /\ done' = done
           ELSE /\ stack' = Below
                /\ done' = Append(done, Ended(top, log, "raised"))
    /\ UNCHANGED <<subscribers, regs, seen, acc, mr, ext>>

\* The each of the call on top is over and it returns (lines 49-50), to the
\* top level or into the block that called it.
NestedPublishReturn ==
    /\ stack # <<>>
    /\ ~top.inHandler
    /\ top.i >= Len(Walked)
    /\ stack' = Below
    /\ done' = Append(done, Ended(top, top.log, "returned"))
    /\ UNCHANGED <<subscribers, regs, seen, acc, mr, ext>>

NextNested ==
    \/ \E args \in SubscribeArgs, block \in Blocks \cup {Nil} :
           Len(regs) < MaxSubscribes /\ Subscribe(args, block)
    \/ \E type \in Topics, args \in PublishArgs :
           /\ Len(done) + Len(stack) < MaxNestedCalls
           /\ NestedPublishStart(type, args)
    \/ NestedEachCall
    \/ \E out \in Outcomes : NestedHandlerEnd(out)
    \/ NestedPublishReturn

SpecNested == Init /\ [][NextNested]_vars

----------------------------------------------------------------------------
(* Handlers that write to their argument.  subscriber.call(data) (line 44) *)
(* passes the object the publisher passed, the same object to every        *)
(* subscriber; publish makes no copy and does not freeze it.  A handler    *)
(* that modifies its argument in place (data.replace, data << ...)         *)
(* modifies the one object the frame of the call refers to.                *)

\* The object after a handler has replaced its contents by those of the
\* other payload.
Replaced(data) == IF data = <<"p1">> THEN <<"p2">> ELSE <<"p1">>

\* The running handler modifies its argument in place; nil has no contents.
HandlerMutatesArg ==
    /\ stack # <<>>
    /\ top.inHandler
    /\ top.data # NilData
    /\ stack' = <<[top EXCEPT !.data = Replaced(@)]>>
    /\ UNCHANGED <<subscribers, regs, done, seen, acc, mr, ext>>

NextMutate ==
    \/ \E args \in SubscribeArgs, block \in Blocks \cup {Nil} :
           Len(regs) < MaxSubscribes /\ Subscribe(args, block)
    \/ \E type \in Topics, args \in PublishArgs :
           Len(done) < MaxMutatePublishes /\ PublishStart(type, args) /\ mr' = mr
    \/ EachCall
    \/ HandlerMutatesArg
    \/ \E out \in Outcomes : HandlerEnd(out)
    \/ PublishReturn

SpecMutate == Init /\ [][NextMutate]_vars

----------------------------------------------------------------------------
(* Map/reduce over an input collection that may hold a value several times *)
(* and that the sequential driver publishes in any order: mr.input is the  *)
(* collection, mr.rest the values not yet published.                       *)

Inputs == UNION {[1..n -> 1..MaxOrderValue] : n \in 0..MaxOrderLen}

\* A sequence without its j-th element.
Without(seq, j) == SubSeq(seq, 1, j - 1) \o SubSeq(seq, j + 1, Len(seq))

InitOrder ==
    /\ subscribers = <<>>
    /\ stack = <<>>
    /\ regs = <<>>
    /\ done = <<>>
    /\ seen = [b \in Blocks |-> <<>>]
    /\ acc = [key \in Keys |-> [sum |-> 0, count |-> 0]]
    /\ \E input \in Inputs :
           mr = [pc |-> "subscribe", n |-> Len(input), k |-> 0,
                 input |-> input, rest |-> input]
    /\ ExtInit

\* The map phase: one of the values not yet published is published on the
\* topic of its partition.
OrderPublish(j) ==
    /\ mr.pc = "map"
    /\ j \in 1..Len(mr.rest)
    /\ PublishStart(partition(mr.rest[j]), <<<<mr.rest[j]>>>>)
    /\ mr' = [mr EXCEPT !.k = @ + 1, !.rest = Without(@, j)]

NextOrder ==
    \/ \E key \in Keys : DriverSubscribe(key)
    \/ DriverStartMap
    \/ \E j \in 1..MaxOrderLen : OrderPublish(j)
    \/ DriverReadOut
    \/ EachCall
    \/ \E out \in Outcomes : HandlerEnd(out)
    \/ PublishReturn

SpecOrder == InitOrder /\ [][NextOrder]_vars

----------------------------------------------------------------------------
(* Map/reduce with a parallel map stage: the driver subscribes the         *)
(* reducers, then several map workers, one thread each, take the values    *)
(* of 1..n and call publish concurrently on the one bus.  publish takes no *)
(* lock (lines 39-50), so the walks and the bodies of the reducers of two  *)
(* workers interleave.  A reducer either guards its update (atomic) or, as *)
(* in the sequential reference, reads and writes its accumulator in two    *)
(* steps.                                                                  *)

Workers == {"w1", "w2"}

Idle == [pc |-> "idle", type |-> "", data |-> NilData, i |-> 0,
         read |-> [sum |-> 0, count |-> 0]]

InitWorkers ==
    /\ subscribers = <<>>
    /\ stack = <<>>
    /\ regs = <<>>
    /\ done = <<>>
    /\ seen = [b \in Blocks |-> <<>>]
    /\ acc = [key \in Keys |-> [sum |-> 0, count |-> 0]]
    /\ cur = 1
    /\ other = <<>>
    /\ pending = <<>>
    /\ \E n \in 0..MaxWorkInput : mr = [pc |-> "subscribe", n |-> n, k |-> 0]
    /\ \E atomic \in BOOLEAN :
           workers = [atomic |-> atomic, overlapped |-> FALSE,
                      of |-> [w \in Workers |-> Idle]]

\* The Array a worker's each walks.
WalkedBy(w) == subscribers[HashKey(workers.of[w].type)]

\* A worker takes the next value and calls publish(partition(value), value):
\* lines 39-42, up to the start of the each.
WorkerPublish(w) ==
    /\ mr.pc = "map"
    /\ mr.k < mr.n
    /\ workers.of[w].pc = "idle"
    /\ LET value == mr.k + 1
           type == partition(value)
       IN  /\ subscribers' = HashDefault(subscribers, type)
           /\ workers' = [workers EXCEPT
                  !.of[w] = [Idle EXCEPT !.pc = "each", !.type = type,
                                         !.data = DefaultData(<<<<value>>>>)],
                  !.overlapped = @ \/ \E v \in Workers \ {w} :
                                         /\ workers.of[v].pc # "idle"
                                         /\ workers.of[v].type = type]
    /\ mr' = [mr EXCEPT !.k = @ + 1]
    /\ UNCHANGED <<stack, regs, done, seen, acc, cur, other, pending>>

\* One iteration of the worker's each starts (lines 42-44): the subscriber
\* is called.  A call that raises a StandardError at once (nil.call, or a
\* reducer called with nil) is rescued and the each goes on.
WorkerEachCall(w) ==
    /\ workers.of[w].pc = "each"
    /\ workers.of[w].i < Len(WalkedBy(w))
    /\ LET subscriber == WalkedBy(w)[workers.of[w].i + 1]
           arg == CallArg(workers.of[w])
       IN  IF subscriber # Nil /\ "ok" \in BlockOutcomes(subscriber, arg)
           THEN workers' = [workers EXCEPT !.of[w].pc = "body"]
           ELSE /\ Rescued("StandardError")
                /\ workers' = [workers EXCEPT !.of[w].i = NextIndex(@)]
    /\ UNCHANGED <<subscribers, stack, regs, done, seen, acc, mr, cur, other, pending>>

\* The body of a guarded reducer: the update is one step; the block returns.
WorkerReduceAtomic(w) ==
    /\ workers.atomic
    /\ workers.of[w].pc = "body"
    /\ acc' = reduce(acc, WalkedBy(w)[workers.of[w].i + 1], CallArg(workers.of[w]))
    /\ workers' = [workers EXCEPT !.of[w].pc = "each", !.of[w].i = NextIndex(@)]
    /\ UNCHANGED <<subscribers, stack, regs, done, seen, mr, cur, other, pending>>

\* The body of an unguarded reducer, first half: it reads its accumulator.
WorkerReduceRead(w) ==
    /\ ~workers.atomic
    /\ workers.of[w].pc = "body"
    /\ workers' = [workers EXCEPT
           !.of[w].pc = "write",
           !.of[w].read = acc[keyOf(WalkedBy(w)[workers.of[w].i + 1])]]
    /\ UNCHANGED <<subscribers, stack, regs, done, seen, acc, mr, cur, other, pending>>

\* Second half: it writes the accumulator it has read, updated; the block
\* returns.
WorkerReduceWrite(w) ==
    /\ workers.of[w].pc = "write"
    /\ LET block == WalkedBy(w)[workers.of[w].i + 1]
       IN  acc' = reduce([acc EXCEPT ![keyOf(block)] = workers.of[w].read],
                         block, CallArg(workers.of[w]))
    /\ workers' = [workers EXCEPT !.of[w].pc = "each", !.of[w].i = NextIndex(@)]
    /\ UNCHANGED <<subscribers, stack, regs, done, seen, mr, cur, other, pending>>

\* The worker's each is over and its publish returns (lines 49-50).
WorkerReturn(w) ==
    /\ workers.of[w].pc = "each"
    /\ workers.of[w].i >= Len(WalkedBy(w))
    /\ workers' = [workers EXCEPT !.of[w] = Idle]
    /\ UNCHANGED <<subscribers, stack, regs, done, seen, acc, mr, cur, other, pending>>

\* Every value is taken and every worker's publish has returned: the driver
\* reads the accumulators.
WorkersReadOut ==
    /\ mr.pc = "map"
    /\ mr.k = mr.n
    /\ \A w \in Workers : workers.of[w].pc = "idle"
    /\ mr' = [mr EXCEPT !.pc = "done"]
    /\ UNCHANGED <<subscribers, stack, regs, done, seen, acc, ext>>

NextWorkers ==
    \/ \E key \in Keys : DriverSubscribe(key)
    \/ DriverStartMap
    \/ \E w \in Workers : WorkerPublish(w)
    \/ \E w \in Workers : WorkerEachCall(w)
    \/ \E w \in Workers : WorkerReduceAtomic(w)
    \/ \E w \in Workers : WorkerReduceRead(w)
    \/ \E w \in Workers : WorkerReduceWrite(w)
    \/ \E w \in Workers : WorkerReturn(w)
    \/ WorkersReadOut

SpecWorkers == InitWorkers /\ [][NextWorkers]_vars

----------------------------------------------------------------------------
(* Helpers of the properties. *)

\* The publish calls that are over.
Finished == {done[k] : k \in 1..Len(done)}

\* The blocks a call has called, in the order of the calls.
LogBlocks(log) == [k \in 1..Len(log) |-> log[k].block]

\* The entries of a log for the element at position p of the Array.
CallsOf(log, p) == {k \in 1..Len(log) : log[k].pos = p}

\* How often a log calls a block.
Count(block, log) == Cardinality({k \in 1..Len(log) : log[k].block = block})

\* A block ended with an exception of any class.
Failed(out) == out \in {"StandardError", "NoMethodError", "Exception"}

\* The subscribe calls made before the k-th publish call started.
RegsBefore(k) == {r \in 1..Len(regs) : regs[r].before < k}

\* The types of a subscribe call, as a set.
TypesOf(r) == {regs[r].types[j] : j \in 1..Len(regs[r].types)}

\* The value of a read of hash[key], without the store of a missing key.
Lookup(hash, key) == IF key \in DOMAIN hash THEN hash[key] ELSE <<>>

----------------------------------------------------------------------------
(* C1: a publish calls the handlers h1..hn that were registered under its  *)
(* topic, all of them, in the order of their registration.                 *)
C1_PublishInvokesAllInRegistrationOrder ==
    \A c \in Finished :
        /\ Len(c.log) >= Len(c.snap)
        /\ SubSeq(LogBlocks(c.log), 1, Len(c.snap)) = c.snap

(* C2: within one publish, when the handler at position k fails, every     *)
(* handler at the positions k+1..n of the topic is still called.           *)
C2_FailureDoesNotStopLaterHandlers ==
    \A c \in Finished : \A k \in 1..Len(c.log) :
        Failed(c.log[k].out) =>
            \A p \in (c.log[k].pos + 1)..Len(c.snap) : CallsOf(c.log, p) # {}

(* C3: publish never fails because of a subscriber: whatever a handler     *)
(* raises, publish returns normally.                                       *)
C3_PublishAlwaysReturnsNormally ==
    \A c \in Finished : c.result = "returned"

(* C4: when publish returns, every entry that was registered under the     *)
(* topic when the call started has been called exactly once, whether it    *)
(* succeeded or failed, and no call is pending.                            *)
C4_ReturnedMeansEachCalledOnce ==
    \A c \in Finished :
        c.result = "returned" =>
            /\ \A p \in 1..Len(c.snap) :
                   /\ Cardinality(CallsOf(c.log, p)) = 1
                   /\ \A k \in CallsOf(c.log, p) : c.log[k].block = c.snap[p]
            /\ \A k \in 1..Len(c.log) : c.log[k].out # "running"

C4_Witness ==
    \E c \in Finished :
        /\ c.result = "returned"
        /\ Len(c.snap) >= 2
        /\ \E k \in 1..Len(c.log) : c.log[k].out = "StandardError"
        /\ \E k \in 1..Len(c.log) : c.log[k].out = "ok"

(* C5: a handler is called by a publish on topic b only if a subscribe     *)
(* registered it under exactly b (case-sensitive, "" included): a handler  *)
(* registered only under another topic a is never called.                  *)
C5_TopicIndependence ==
    \A c \in Finished \cup {stack[k] : k \in 1..Len(stack)} :
        \A k \in 1..Len(c.log) :
            \E r \in 1..Len(regs) :
                /\ regs[r].block = c.log[k].block
                /\ c.type \in TypesOf(r)

C5_Witness ==
    \E c \in Finished :
        /\ c.type = "A"
        /\ c.log # <<>>
        /\ \E r \in 1..Len(regs) :
               /\ TypesOf(r) = {"a"}
               /\ regs[r].before = 0
               /\ Count(regs[r].block, c.log) = 0

(* C6: a handler registered by one subscribe call under two different      *)
(* topics a and b is called exactly once by every publish on a and by      *)
(* every publish on b.                                                      *)
C6_TwoTopicHandlerCalledOncePerPublish ==
    \A k \in 1..Len(done) : \A b \in Blocks :
        LET rs == {r \in 1..Len(regs) : regs[r].block = b /\ regs[r].types # <<>>}
        IN  \A r \in rs :
                ( /\ rs = {r}
                  /\ Len(regs[r].types) = 2
                  /\ regs[r].types[1] # regs[r].types[2]
                  /\ r \in RegsBefore(k)
                  /\ done[k].type \in TypesOf(r) )
                => Count(b, done[k].log) = 1

(* C7: a publish on a topic without subscribers returns normally, calls no *)
(* handler and leaves every read of the table as it was before the call.   *)
C7_NoSubscriberNoOp ==
    /\ \A k \in 1..Len(done) :
           (\A r \in RegsBefore(k) : done[k].type \notin TypesOf(r)) =>
               /\ done[k].result = "returned"
               /\ done[k].log = <<>>
    /\ \A k \in 1..Len(stack) :
           (\A r \in RegsBefore(Len(done) + k) : stack[k].type \notin TypesOf(r)) =>
               /\ stack[k].log = <<>>
               /\ ~stack[k].inHandler
               /\ \A t \in Topics : Lookup(subscribers, t) = Lookup(stack[k].pre, t)

\* A first publish on a topic never seen before, then a subscribe under that
\* topic and a second publish on it that calls the subscribed block.
C7_Witness ==
    /\ Len(done) = 2
    /\ \A r \in RegsBefore(1) : done[1].type \notin TypesOf(r)
    /\ done[1].log = <<>> /\ done[1].result = "returned"
    /\ done[2].type = done[1].type
    /\ \E r \in 1..Len(regs) :
           /\ regs[r].before = 1
           /\ regs[r].types = <<done[1].type>>
           /\ done[2].snap = <<regs[r].block>>
           /\ LogBlocks(done[2].log) = done[2].snap

(* C8: subscribe with an empty topic list or without a handler signals an  *)
(* InvalidArgument failure to its caller.                                  *)
C8_InvalidSubscribeIsSignalled ==
    \A r \in 1..Len(regs) :
        (regs[r].types = <<>> \/ regs[r].block = Nil) =>
            regs[r].result = "InvalidArgument"

\* The data of the publish calls on a type among the calls after the
\* first n, in the order of the calls.
RECURSIVE PublishedOn(_, _)
PublishedOn(type, n) ==
    IF n >= Len(done) THEN <<>>
    ELSE (IF done[n + 1].type = type THEN <<done[n + 1].data>> ELSE <<>>)
         \o PublishedOn(type, n + 1)

(* C9: a handler subscribed to topic x is called once per publish on x,    *)
(* in the order of the publish calls, each time with the data of that      *)
(* call (nil when the data is omitted).                                    *)
C9_HandlerObservesPayloadsInOrder ==
    stack = <<>> =>
        \A b \in Blocks :
            LET rs == {r \in 1..Len(regs) : regs[r].block = b /\ regs[r].types # <<>>}
            IN  \A r \in rs :
                    (rs = {r} /\ Len(regs[r].types) = 1 /\ ~regs[r].nested) =>
                        seen[b] = PublishedOn(regs[r].types[1], regs[r].before)

(* C10: map/reduce over 1..n partitioned by parity: when the publish loop  *)
(* of the driver has returned, the even reducer holds count = floor(n/2)   *)
(* and the sum of the even values, the odd reducer holds count = ceil(n/2) *)
(* and the sum of the odd values; 500/250500 and 500/250000 for n = 1000.  *)
C10_MapReduceClosedForm ==
    mr.pc = "done" =>
        LET evens == mr.n \div 2
            odds == mr.n - evens
        IN  /\ acc["even"] = [sum |-> evens * (evens + 1), count |-> evens]
            /\ acc["odd"] = [sum |-> odds * odds, count |-> odds]
            /\ mr.n = InputSize =>
                   /\ acc["even"] = [sum |-> 250500, count |-> 500]
                   /\ acc["odd"] = [sum |-> 250000, count |-> 500]

\* The driver has read the accumulators after MaxInput publish calls, each
\* of which called one reducer; both reducers have folded several values.
C10_Witness ==
    /\ mr.pc = "done"
    /\ mr.n = MaxInput
    /\ Len(done) = mr.n
    /\ \A k \in 1..Len(done) :
           /\ done[k].result = "returned"
           /\ LogBlocks(done[k].log) = <<reducerFor(partition(k))>>
    /\ acc["even"].count > 1 /\ acc["odd"].count > 1

\* What the values lo..hi of the partition of a key add to its accumulator:
\* their sum and their number.
RECURSIVE FoldRange(_, _, _)
FoldRange(key, lo, hi) ==
    IF lo > hi THEN [sum |-> 0, count |-> 0]
    ELSE IF lo = hi
         THEN (IF partition(lo) = key THEN [sum |-> lo, count |-> 1]
                                      ELSE [sum |-> 0, count |-> 0])
    ELSE LET l == FoldRange(key, lo, (lo + hi) \div 2)
             r == FoldRange(key, (lo + hi) \div 2 + 1, hi)
         IN  [sum |-> l.sum + r.sum, count |-> l.count + r.count]

\* The accumulators after the values 1..n have been folded, each by the
\* reducer of its partition and by no other.
Folded(n) == [key \in Keys |-> FoldRange(key, 1, n)]

NewTypes == {regs'[Len(regs')].types[j] : j \in 1..Len(regs'[Len(regs')].types)}

(* C12: a subscribe call on the types T leaves the handler list of every   *)
(* topic that is not in T as it was: same handlers, same order, same       *)
(* length.                                                                 *)
C12_SubscribeLeavesOtherTopics ==
    [][Len(regs') > Len(regs) =>
          \A t \in Topics \ NewTypes :
              /\ Lookup(subscribers', t) = Lookup(subscribers, t)
              /\ (t \in DOMAIN subscribers') = (t \in DOMAIN subscribers)]_vars

\* A second subscribe call on another topic has left the list of the first
\* call's topic as the first call made it.
C12_Witness ==
    /\ Len(regs) = 2
    /\ regs[1].types = <<"a">>
    /\ regs[2].types = <<"A">>
    /\ regs[2].block # Nil
    /\ Lookup(subscribers, "a") = <<regs[1].block>>
    /\ Lookup(subscribers, "A") = <<regs[2].block>>

\* The table after successive subscribe calls of one block, one call per
\* type of ts and in the order of ts, each call with the type alone.
RECURSIVE SubscribeEach(_, _, _)
SubscribeEach(hash, ts, block) ==
    IF ts = <<>> THEN hash
    ELSE SubscribeEach(subscribe(hash, flatten(<<Str(Head(ts))>>), block),
                       Tail(ts), block)

(* C13: subscribe([t1, ..., tn], h) leaves the bus in the state that n     *)
(* successive subscribe calls of h on t1, ..., tn in that order leave it   *)
(* in, so that every later publish delivers the same; and the array form   *)
(* subscribe([t1, ..., tn], h) and the several-arguments form              *)
(* subscribe(t1, ..., tn, h) leave the same state too.                     *)
C13_ManyTopicsIsSuccessiveSingles ==
    [][Len(regs') > Len(regs) =>
          LET new == regs'[Len(regs')]
          IN  /\ subscribers' = SubscribeEach(subscribers, new.types, new.block)
              /\ \A args \in ArgForms(new.types) :
                     subscribers' = subscribe(subscribers, flatten(args), new.block)]_vars

\* subscribe(["a", "A"], h) on a new bus has registered h under both, as
\* subscribe("a", h) followed by subscribe("A", h) does.
C13_Witness ==
    /\ Len(regs) = 1
    /\ regs[1].types = <<"a", "A">>
    /\ regs[1].block \in Blocks
    /\ regs[1].before = 0
    /\ stack = <<>>
    /\ subscribers = ("a" :> <<regs[1].block>>) @@ ("A" :> <<regs[1].block>>)

\* The publish calls made so far, returned, raised or still running.
Calls == Finished \cup {stack[k] : k \in 1..Len(stack)}

(* C17: a publish delivers to a snapshot: the handlers it calls are those  *)
(* of the list as it was when the publish looked the topic up, in that     *)
(* order; a handler registered under the topic while the publish is in     *)
(* progress is not called by it.                                           *)
C17_PublishDeliversToSnapshot ==
    \A c \in Calls :
        \A k \in 1..Len(c.log) :
            c.log[k].block \in Blocks =>
                /\ c.log[k].pos <= Len(c.snap)
                /\ c.log[k].block = c.snap[c.log[k].pos]

\* The publish calls made so far with their rank: the k-th call made.
Ranked ==
    {<<k, done[k]>> : k \in 1..Len(done)}
        \cup {<<Len(done) + k, stack[k]>> : k \in 1..Len(stack)}

(* C14: no replay: a publish calls a handler only if the handler was       *)
(* registered under the topic before the publish started; so a handler     *)
(* subscribed after publish(topic, x) has returned is never called with x. *)
C14_NoReplay ==
    \A c \in Ranked :
        \A k \in 1..Len(c[2].log) :
            c[2].log[k].block \in Blocks =>
                \E r \in RegsBefore(c[1]) :
                    /\ regs[r].block = c[2].log[k].block
                    /\ c[2].type \in TypesOf(r)

(* C16: every subscribe call returns a subscription identifier; the        *)
(* identifiers returned by two different subscribe calls are different.    *)
C16_SubscribeReturnsDistinctIds ==
    \A r1, r2 \in 1..Len(regs) :
        r1 # r2 =>
            SubscribeValue(regs[r1].types, regs[r1].block)
                # SubscribeValue(regs[r2].types, regs[r2].block)

(* C15: two instances share no state: a publish on one instance calls a    *)
(* handler only if a subscribe on that same instance registered it under   *)
(* the topic; a subscribe on the other instance, even with the same topic  *)
(* name, never makes it called.                                            *)
C15_InstancesShareNoState ==
    /\ \A c \in Finished :
           \A k \in 1..Len(c.log) :
               \E r \in 1..Len(regs) :
                   /\ regs[r].bus = c.bus
                   /\ regs[r].block = c.log[k].block
                   /\ c.type \in TypesOf(r)
    /\ \A j \in 1..Len(stack) :
           \A k \in 1..Len(stack[j].log) :
               \E r \in 1..Len(regs) :
                   /\ regs[r].bus = cur
                   /\ regs[r].block = stack[j].log[k].block
                   /\ stack[j].type \in TypesOf(r)

\* h1 is registered under "a" on the first instance only, h2 under "a" on
\* the second only: a publish of "a" on the second calls h2 and not h1.
C15_Witness ==
    /\ Len(regs) = 2
    /\ regs[1].bus = 1 /\ regs[1].types = <<"a">> /\ regs[1].block = "h1"
    /\ regs[2].bus = 2 /\ regs[2].types = <<"a">> /\ regs[2].block = "h2"
    /\ \E c \in Finished :
           /\ c.bus = 2
           /\ c.type = "a"
           /\ LogBlocks(c.log) = <<"h2">>

(* C20: in the synchronous map/reduce driver, with every reducer           *)
(* subscribed before the first publish, when the k-th publish call has     *)
(* returned the accumulators are the fold of the first k values exactly:   *)
(* the call of value v called the reducer of partition(v) once, with v,    *)
(* and no other; when the publish loop has returned nothing is pending.    *)
C20_AccumulatorsFoldFirstK ==
    /\ (mr.pc \in {"map", "done"} /\ stack = <<>>) =>
           /\ Len(done) = mr.k
           /\ acc = Folded(mr.k)
           /\ \A v \in 1..Len(done) :
                  /\ done[v].result = "returned"
                  /\ Len(done[v].log) = 1
                  /\ done[v].log[1].block = reducerFor(partition(v))
                  /\ done[v].log[1].arg = <<v>>
                  /\ done[v].log[1].out = "ok"
    /\ mr.pc = "done" => (stack = <<>> /\ mr.k = mr.n)

\* Half way through the publish loop: the third publish call has returned
\* and the fourth has not started.
C20_Witness ==
    /\ mr.pc = "map"
    /\ mr.n = MaxInput
    /\ mr.k = 3
    /\ stack = <<>>
    /\ Len(done) = 3
    /\ acc = [even |-> [sum |-> 2, count |-> 1], odd |-> [sum |-> 4, count |-> 2]]

\* The subscribe call in progress has appended its block under the topic t
\* in the table hash.
Appended(hash, t) ==
    Len(Lookup(hash, t)) > Len(Lookup(pending[1].base, t))

(* C18: subscribe with several topics is atomic for concurrent lookups:    *)
(* a publish that runs while subscribe([t1, t2], h) is in progress never   *)
(* finds, in the table as it looks its topic up, h registered under one of *)
(* the two topics and not under the other.                                 *)
C18_MultiTopicSubscribeAtomic ==
    pending # <<>> =>
        \A k \in 1..Len(stack) :
            Len(done) + k > pending[1].since =>
                \A j1, j2 \in 1..Len(pending[1].types) :
                    Appended(stack[k].pre, pending[1].types[j1])
                        <=> Appended(stack[k].pre, pending[1].types[j2])

(* C19: publish terminates when every handler call ends and no handler     *)
(* publishes: a publish call that has started ends after finitely many     *)
(* handler calls, also when handlers subscribe under its topic during the  *)
(* delivery.                                                               *)
C19_PublishTerminates == (stack # <<>>) ~> (stack = <<>>)

(* C21: publish never changes the subscriber table: a step of a publish    *)
(* call, no subscribe being made, leaves the set of topics that have an    *)
(* entry in the table and the handler list of every topic as they were,    *)
(* also when the published topic was never seen before.                    *)
C21_PublishLeavesTableUnchanged ==
    [][regs' = regs =>
          /\ DOMAIN subscribers' = DOMAIN subscribers
          /\ \A t \in DOMAIN subscribers : subscribers'[t] = subscribers[t]]_vars

(* C22: the subscriber table is reachable only through the bus: neither    *)
(* subscribe nor publish hands an internal handler list to its caller, so  *)
(* the handler list of a topic changes only by a subscribe call.           *)
C22_TableChangesOnlyBySubscribe ==
    [][regs' = regs =>
          \A t \in Topics : Lookup(subscribers', t) = Lookup(subscribers, t)]_vars

(* C23: a subscribe call with an empty topic list or without a handler     *)
(* leaves the subscriber table unchanged; so every entry ever stored in    *)
(* the table is a callable handler, never nil.                             *)
C23_InvalidSubscribeLeavesTable ==
    [][Len(regs') > Len(regs) =>
          LET new == regs'[Len(regs')]
          IN  (new.types = <<>> \/ new.block = Nil) =>
                  /\ subscribers' = subscribers
                  /\ \A t \in DOMAIN subscribers' :
                         \A k \in 1..Len(subscribers'[t]) : subscribers'[t][k] # Nil]_vars

\* How often a type occurs in the types of a subscribe call.
Times(type, r) == Cardinality({j \in 1..Len(regs[r].types) : regs[r].types[j] = type})

(* C24: a subscribe call whose topic list contains one topic m times makes *)
(* m separate entries of the handler under that topic, and every later     *)
(* publish on that topic calls the handler m times.                        *)
C24_DuplicateTopicMeansRepeatedCalls ==
    \A k \in 1..Len(done) : \A b \in Blocks :
        LET rs == {r \in 1..Len(regs) : regs[r].block = b /\ regs[r].types # <<>>}
        IN  \A r \in rs :
                (rs = {r} /\ r \in RegsBefore(k) /\ Times(done[k].type, r) > 1) =>
                    /\ Count(b, [j \in 1..Len(done[k].snap) |-> [block |-> done[k].snap[j]]])
                           = Times(done[k].type, r)
                    /\ Count(b, done[k].log) = Times(done[k].type, r)

(* C25: a handler that failed during one publish stays registered at the   *)
(* same position: the failure changes nothing in the subscriber table and  *)
(* every later publish on its topic calls the handler again.               *)
C25_FailedHandlerStaysRegistered ==
    \A k1, k2 \in 1..Len(done) :
        (k1 < k2 /\ done[k1].type = done[k2].type) =>
            \A j \in 1..Len(done[k1].log) :
                (Failed(done[k1].log[j].out) /\ done[k1].log[j].block \in Blocks) =>
                    LET p == done[k1].log[j].pos
                    IN  /\ p <= Len(done[k2].snap)
                        /\ done[k2].snap[p] = done[k1].log[j].block
                        /\ \E i \in 1..Len(done[k2].log) :
                               /\ done[k2].log[i].pos = p
                               /\ done[k2].log[i].block = done[k1].log[j].block

(* C26: nested publish is delivered depth-first: when a handler of topic a *)
(* calls publish(b, y), b different from a, during the delivery of         *)
(* publish(a, x), every subscriber of b is called, in registration order,  *)
(* and the nested call returns before the next subscriber of a is called;  *)
(* the outer delivery then goes on and still calls each remaining          *)
(* subscriber of a exactly once.                                           *)
C26_NestedPublishDepthFirst ==
    \A c \in Finished :
        /\ (c.parent # <<>> /\ c.parent # <<c.type>>) =>
               /\ c.result = "returned"
               /\ Len(c.log) >= Len(c.snap)
               /\ \A p \in 1..Len(c.snap) :
                      c.log[p].pos = p /\ c.log[p].block = c.snap[p]
               /\ c.under = c.from
        /\ (c.parent = <<>> /\ c.kids > 0) =>
               /\ c.result = "returned"
               /\ \A p \in 1..Len(c.snap) : Cardinality(CallsOf(c.log, p)) = 1

(* C27: within one publish(topic, payload) every handler is called with    *)
(* the payload the publisher passed, the value the first handler was       *)
(* called with: what an earlier handler does with its argument, modifying  *)
(* it in place or failing, does not change what a later handler receives.  *)
C27_LaterHandlersGetPassedPayload ==
    \A c \in Calls :
        \A k \in 1..Len(c.log) : c.log[k].arg = c.log[1].arg

\* The accumulators after the values of a collection have been folded in
\* the order of the collection, each by the reducer of its partition.
RECURSIVE FoldedInOrder(_)
FoldedInOrder(input) ==
    IF input = <<>> THEN [key \in Keys |-> [sum |-> 0, count |-> 0]]
    ELSE reduce(FoldedInOrder(SubSeq(input, 1, Len(input) - 1)),
                reducerFor(partition(input[Len(input)])),
                <<input[Len(input)]>>)

(* C28: the map/reduce result depends only on the multiset of the input    *)
(* values: for a fixed partition function, publishing the same values      *)
(* sequentially in any order gives the same final (sum, count) per key,    *)
(* those of publishing them in the order of the collection.                *)
C28_OrderOfPublishingIrrelevant ==
    mr.pc = "done" => acc = FoldedInOrder(mr.input)

\* A collection with a value held twice has been published in another
\* order than its own and the accumulators have been read.
C28_Witness ==
    /\ mr.pc = "done"
    /\ mr.input = <<2, 1, 2>>
    /\ [k \in 1..Len(done) |-> done[k].data[1]] = <<1, 2, 2>>
    /\ acc = [even |-> [sum |-> 4, count |-> 2], odd |-> [sum |-> 1, count |-> 1]]

====
